---- MODULE Spec2Model ----
(***************************************************************************)
(* Model of the XCM Lite submission-to-relay pipeline:                     *)
(*   - MessageEnvelope::validate            (src/src/domain/message.rs)    *)
(*   - KeyRegistry::verify_signature        (src/src/crypto.rs)            *)
(*   - MessageProcessor::submit_message     (src/src/processor/mod.rs)     *)
(*   - run_relay_loop / process_single_message (src/src/processor/mod.rs)  *)
(*   - ServiceState                         (src/src/state.rs)             *)
(*                                                                         *)
(* Strings that the code trims or upper-cases are sequences of one-        *)
(* character strings; identifiers that are only compared are TLA+ strings. *)
(* Option<T> is a sequence: <<>> is None, <<v>> is Some(v).                *)
(*                                                                         *)
(* An RwLock's write() fails only after a thread panicked while holding    *)
(* the lock.  No code path panics under a lock, so the StatePoisoned       *)
(* returns (processor/mod.rs lines 68, 121, 154, 168) are unreachable and  *)
(* the model has no poisoned state.  Each critical section is one step.    *)
(***************************************************************************)
EXTENDS Integers, Sequences, FiniteSets, TLC

(***************************************************************************)
(* Bounds of the model.                                                    *)
(***************************************************************************)
\* Number of submit_message calls made in a run.
MaxCalls == 2

\* Capacity of the relay queue in the model.  The program creates the queue
\* with mpsc::channel(128) (processor/mod.rs:35); the model uses a small
\* capacity so that the queue fills up and producers block.
QueueCapacity == 1

\* Number of ExecutionEngine::execute calls made in a run of the engine.
MaxExecutions == 3

\* Width in bits of the model's balances and amounts.  The program's are
\* u128; the model keeps the arithmetic and scales the width down so that
\* the largest value is reached.
U128Bits == 4

(***************************************************************************)
(* Program constants and configuration.                                    *)
(***************************************************************************)
\* const MAX_HOPS: usize = 3
MAX_HOPS == 3

\* ParachainConfig: count (its default), xcm_version (its default) and keys
\* (the para ids of the key entries).
\* The configuration of the spec's scenario: chains 1000 and 2000, "V3".
ConfigCount == 3

ConfigKeys == <<1000, 2000>>

ConfigXcmVersion == <<"V", "3">>

\* ParachainConfig::parachain_ids
parachain_ids ==
    IF ConfigKeys = <<>>
    THEN {1000 + idx : idx \in 0 .. (ConfigCount - 1)}
    ELSE {ConfigKeys[i] : i \in 1 .. Len(ConfigKeys)}

(***************************************************************************)
(* Strings.                                                                *)
(***************************************************************************)
IsWhitespace(c) == c \in {" ", "\t", "\n"}

\* char::to_uppercase on the characters the model uses
UpperChar(c) ==
    CASE c = "v" -> "V"
      [] c = "d" -> "D"
      [] c = "o" -> "O"
      [] c = "t" -> "T"
      [] OTHER -> c

\* str::to_uppercase
ToUppercase(s) == [i \in 1 .. Len(s) |-> UpperChar(s[i])]

RECURSIVE TrimStart(_)
TrimStart(s) ==
    IF s # <<>> /\ IsWhitespace(Head(s)) THEN TrimStart(Tail(s)) ELSE s

RECURSIVE TrimEnd(_)
TrimEnd(s) ==
    IF s # <<>> /\ IsWhitespace(s[Len(s)])
    THEN TrimEnd(SubSeq(s, 1, Len(s) - 1))
    ELSE s

\* str::trim
Trim(s) == TrimEnd(TrimStart(s))

(***************************************************************************)
(* domain/message.rs: XcmVersion, Instruction, MessageEnvelope::validate   *)
(***************************************************************************)
\* The comparison without trim and to_uppercase.
is_supported_case_sensitive(version, configured) ==
    CASE version = "V3" -> configured = <<"V", "3">>
      [] version = "V4" -> configured = <<"V", "4">>

\* XcmVersion::is_supported(self, configured)
is_supported(version, configured) ==
    LET normalized == ToUppercase(Trim(configured)) IN
    CASE version = "V3" -> normalized = <<"V", "3">>
      [] version = "V4" -> normalized = <<"V", "4">>

\* Result<(), MessageValidationError>: ok, or an error with code and detail.
\* The detail keeps the text and, for an instruction error, the index.
ValidOk == [ok |-> TRUE, code |-> "None", detail |-> "", idx |-> -1]

invalid_payload(detail) ==
    [ok |-> FALSE, code |-> "InvalidPayload", detail |-> detail, idx |-> -1]

\* TransferReserveAsset::validate
TransferValidate(data) ==
    IF Trim(data.asset) = <<>>
    THEN invalid_payload("asset identifier must be provided")
    ELSE IF data.amount = 0
    THEN invalid_payload("transfer amount must be greater than zero")
    ELSE IF Trim(data.beneficiary) = <<>>
    THEN invalid_payload("beneficiary must be provided")
    ELSE ValidOk

\* Transact::validate
TransactValidate(data) ==
    IF Trim(data.call_data) = <<>>
    THEN invalid_payload("call_data must be provided")
    ELSE ValidOk

\* QueryResponse::validate
QueryResponseValidate(data) ==
    IF Trim(data.query_id) = <<>>
    THEN invalid_payload("query_id must be provided")
    ELSE IF Trim(data.response) = <<>>
    THEN invalid_payload("response must be provided")
    ELSE ValidOk

\* Instruction::validate
InstructionValidate(instruction) ==
    CASE instruction.type = "TransferReserveAsset" -> TransferValidate(instruction)
      [] instruction.type = "Transact" -> TransactValidate(instruction)
      [] instruction.type = "QueryResponse" -> QueryResponseValidate(instruction)

\* The loop with the error of the last failing instruction as its result.
RECURSIVE ValidateInstructionsLast(_, _)
ValidateInstructionsLast(instructions, i) ==
    IF i > Len(instructions)
    THEN ValidOk
    ELSE LET rest == ValidateInstructionsLast(instructions, i + 1)
             r == InstructionValidate(instructions[i])
         IN IF ~rest.ok \/ r.ok
            THEN rest
            ELSE [ok |-> FALSE, code |-> "InvalidPayload",
                  detail |-> "instruction " \o ToString(i - 1)
                                 \o " invalid: " \o r.detail,
                  idx |-> i - 1]

\* The loop over the instructions of validate: the first failing
\* instruction, from position i on, decides the result.  idx is 0-based as
\* in enumerate(); the detail is format!("instruction {idx} invalid: {}").
RECURSIVE ValidateInstructions(_, _)
ValidateInstructions(instructions, i) ==
    IF i > Len(instructions)
    THEN ValidOk
    ELSE LET r == InstructionValidate(instructions[i]) IN
         IF ~r.ok
         THEN [ok |-> FALSE, code |-> "InvalidPayload",
               detail |-> "instruction " \o ToString(i - 1)
                              \o " invalid: " \o r.detail,
               idx |-> i - 1]
         ELSE ValidateInstructions(instructions, i + 1)

\* validate with the version check moved in front of the structural checks.
validate_version_first(envelope, configured_version) ==
    IF ~is_supported(envelope.xcm_version, configured_version)
    THEN [ok |-> FALSE, code |-> "VersionMismatch",
          detail |-> "message version mismatches configured version",
          idx |-> -1]
    ELSE IF envelope.sender_para = 0 \/ envelope.dest_para = 0
    THEN invalid_payload("sender and destination parachain IDs must be non-zero")
    ELSE IF envelope.sender_para = envelope.dest_para
    THEN invalid_payload("sender and destination parachain IDs must differ")
    ELSE IF envelope.instructions = <<>>
    THEN invalid_payload("at least one instruction is required")
    ELSE ValidateInstructions(envelope.instructions, 1)

\* MessageEnvelope::validate(&self, configured_version)
validate(envelope, configured_version) ==
    IF envelope.sender_para = 0 \/ envelope.dest_para = 0
    THEN invalid_payload("sender and destination parachain IDs must be non-zero")
    ELSE IF envelope.sender_para = envelope.dest_para
    THEN invalid_payload("sender and destination parachain IDs must differ")
    ELSE IF envelope.instructions = <<>>
    THEN invalid_payload("at least one instruction is required")
    ELSE IF ~is_supported(envelope.xcm_version, configured_version)
    THEN [ok |-> FALSE, code |-> "VersionMismatch",
          detail |-> "message version mismatches configured version",
          idx |-> -1]
    ELSE ValidateInstructions(envelope.instructions, 1)

(***************************************************************************)
(* crypto.rs: KeyRegistry                                                  *)
(***************************************************************************)
\* KeyRegistry::from_config: one keypair per configured parachain id.
KeyRegistry == parachain_ids

\* An ed25519 signature is modelled by what makes it verify: the chain
\* whose signing key produced it and the bytes it was computed over, plus
\* its length in bytes.
Sign(para_id, message) == [len |-> 64, signer |-> para_id, msg |-> message]

CryptoOk == [ok |-> TRUE, err |-> "None"]

\* verify_signature without the final verifying_key().verify(...) call.
verify_signature_unverified(para_id, message, signature_bytes) ==
    IF para_id \notin KeyRegistry
    THEN [ok |-> FALSE, err |-> "UnknownParachain"]
    ELSE IF signature_bytes.len # 64
    THEN [ok |-> FALSE, err |-> "InvalidSignature"]
    ELSE CryptoOk

\* KeyRegistry::verify_signature(para_id, message, signature_bytes)
verify_signature(para_id, message, signature_bytes) ==
    IF para_id \notin KeyRegistry
    THEN [ok |-> FALSE, err |-> "UnknownParachain"]
    ELSE IF signature_bytes.len # 64
    THEN [ok |-> FALSE, err |-> "InvalidSignature"]
    ELSE IF ~(signature_bytes.signer = para_id /\ signature_bytes.msg = message)
    THEN [ok |-> FALSE, err |-> "InvalidSignature"]
    ELSE CryptoOk

(***************************************************************************)
(* state.rs: MessageStatus, MessageRecord, ParachainState                  *)
(***************************************************************************)
\* MessageStatus; every variant carries the same fields so that records of
\* different variants can be compared.
Pending == [tag |-> "Pending", error |-> "", outcome |-> <<>>]

Relayed == [tag |-> "Relayed", error |-> "", outcome |-> <<>>]

Executed(outcome) == [tag |-> "Executed", error |-> "", outcome |-> outcome]

Failed(error) == [tag |-> "Failed", error |-> error, outcome |-> <<>>]

\* MessageRecord { status, hops }
MessageRecord(status, hops) == [status |-> status, hops |-> hops]

\* ParachainState::default()
ParachainStateDefault == [balances |-> [b \in {} |-> 0], logs |-> <<>>]

\* ServiceState::initialize: one default ParachainState per configured id,
\* and an empty message map.
InitialParachains == [para_id \in parachain_ids |-> ParachainStateDefault]

InitialMessages == [id \in {} |-> MessageRecord(Pending, <<>>)]

\* HashMap::insert on the message map (replaces an existing entry).
MapInsert(map, key, value) ==
    [k \in (DOMAIN map) \cup {key} |-> IF k = key THEN value ELSE map[k]]

(***************************************************************************)
(* processor/mod.rs: errors and their Display texts                        *)
(***************************************************************************)
\* RelayError and its #[error(...)] text (err.to_string()).
RelayOk == [ok |-> TRUE, text |-> ""]

UnknownDestination(para_id) ==
    [ok |-> FALSE,
     text |-> "destination parachain " \o ToString(para_id) \o " not found"]

HopLimitExceeded == [ok |-> FALSE, text |-> "maximum hop count exceeded"]

\* Uuid::new_v4().to_string(): the n-th identifier minted in the run.  Every
\* call yields an identifier that no other call yields and that no caller
\* supplies.
Uuid(n) == "uuid-" \o ToString(n)

(***************************************************************************)
(* Inputs of submit_message.                                               *)
(***************************************************************************)
DOT == <<"D", "O", "T">>

Acct == <<"a", "c", "c", "t">>

TransferReserveAsset(asset, amount, beneficiary) ==
    [type |-> "TransferReserveAsset", asset |-> asset, amount |-> amount,
     beneficiary |-> beneficiary]

Transact(call_data, weight) ==
    [type |-> "Transact", call_data |-> call_data, weight |-> weight]

QueryResponse(query_id, response) ==
    [type |-> "QueryResponse", query_id |-> query_id, response |-> response]

\* The envelope of the tests' sample_message().
SampleMessage ==
    [message_id |-> <<"msg-1">>, sender_para |-> 1000, dest_para |-> 2000,
     xcm_version |-> "V3",
     instructions |-> <<TransferReserveAsset(DOT, 10, Acct)>>,
     signature |-> <<"deadbeef">>]

\* Envelopes that pass validate for the configured version: with and without
\* a caller-supplied id, to a registered and to an unregistered destination,
\* with one and with two instructions.
GoodEnvelopes ==
    {[SampleMessage EXCEPT !.message_id = m, !.dest_para = d] :
        m \in {<<>>, <<"msg-1">>, <<"msg-2">>}, d \in {2000, 9999}} \cup
    {[SampleMessage EXCEPT !.message_id = <<"msg-3">>, !.instructions =
         <<TransferReserveAsset(DOT, 10, Acct), Transact(<<"c">>, <<>>)>>]}

\* Envelopes from a chain that has no key in the registry.
UnregisteredSenderEnvelopes ==
    {[SampleMessage EXCEPT !.sender_para = 3000]}

\* Envelopes that validate rejects, one per check of validate.
BadEnvelopes ==
    {[SampleMessage EXCEPT !.sender_para = 0],
     [SampleMessage EXCEPT !.dest_para = 0],
     [SampleMessage EXCEPT !.dest_para = 1000],
     [SampleMessage EXCEPT !.instructions = <<>>],
     [SampleMessage EXCEPT !.xcm_version = "V4"],
     [SampleMessage EXCEPT !.instructions =
         <<TransferReserveAsset(DOT, 0, Acct)>>],
     [SampleMessage EXCEPT !.instructions =
         <<Transact(<<"c">>, <<>>), QueryResponse(<<"q">>, <<" ">>)>>]}

Envelopes == GoodEnvelopes \cup UnregisteredSenderEnvelopes \cup BadEnvelopes

\* The caller's serialization of the envelope (serde_json::to_vec in the
\* API layer): the envelope's fields in declaration order.
Serialize(envelope) ==
    <<envelope.message_id, envelope.sender_para, envelope.dest_para,
      envelope.xcm_version, envelope.instructions, envelope.signature>>

\* Signature bytes a caller may send with an envelope: the sender's
\* signature over the payload, another chain's signature over it, the
\* sender's signature over other bytes, and bytes of the wrong length.
Signatures(envelope, raw_payload) ==
    {Sign(c, raw_payload) : c \in KeyRegistry \cup {envelope.sender_para}} \cup
    {Sign(envelope.sender_para, <<"other bytes">>),
     [len |-> 63, signer |-> envelope.sender_para, msg |-> raw_payload]}

Producers == {"p1", "p2"}

(***************************************************************************)
(* State.                                                                  *)
(***************************************************************************)
VARIABLES
    messages,     \* ServiceState.messages: message id -> MessageRecord
    parachains,   \* ServiceState.parachains: para id -> ParachainState
    queue,        \* the items buffered in the mpsc channel, oldest first
    rxOpen,       \* TRUE while the channel's Receiver exists
    nextUuid,     \* number of identifiers Uuid::new_v4 has produced
    sub,          \* per producer: the submit_message call it is executing
    wpc,          \* the relay worker's position in run_relay_loop
    cur,          \* the relay worker's locals for the item being processed
    calls,        \* number of submit_message calls started (history)
    ret,          \* what the last finished submit_message call returned (history)
    admitted,     \* call number -> what admission registered for it (history)
    processed,    \* the worker's finished iterations, in order (history)
    probe         \* input and result of a function applied on its own

vars ==
    <<messages, parachains, queue, rxOpen, nextUuid, sub, wpc, cur, calls,
      ret, admitted, processed, probe>>

\* A producer that is not inside submit_message.
IdleCall ==
    [pc |-> "idle", envelope |-> <<>>, raw_payload |-> <<>>,
     signature |-> [len |-> 0, signer |-> 0, msg |-> <<>>],
     message_id |-> "", call |-> 0, steps |-> <<>>]

\* The worker's locals outside an iteration.
NoItem ==
    [envelope |-> <<>>, raw_payload |-> <<>>, call |-> 0, message_id |-> "",
     hops |-> <<>>, result |-> RelayOk]

NoReturn == [call |-> 0, kind |-> "None", value |-> <<>>, steps |-> <<>>]

\* No function is being applied on its own.
NoProbe == [fn |-> "none"]

\* ServiceState::initialize and MessageProcessor::new: empty message map,
\* one default ledger per configured chain, empty channel, worker at recv.
ServiceInit ==
    /\ messages = InitialMessages
    /\ parachains = InitialParachains
    /\ queue = <<>>
    /\ rxOpen = TRUE
    /\ nextUuid = 0
    /\ sub = [p \in Producers |-> IdleCall]
    /\ wpc = "recv"
    /\ cur = NoItem
    /\ calls = 0
    /\ ret = NoReturn
    /\ admitted = [c \in {} |-> 0]
    /\ processed = <<>>

Init == ServiceInit /\ probe = NoProbe

(***************************************************************************)
(* MessageProcessor::submit_message                                        *)
(***************************************************************************)
\* The two checks in the opposite order: verify_signature, then validate.
SubmitChecksVerifyFirst(envelope, raw_payload, signature) ==
    LET s == verify_signature(envelope.sender_para, raw_payload, signature) IN
    IF ~s.ok
    THEN [kind |-> "Signature", steps |-> <<"verify">>]
    ELSE LET v == validate(envelope, ConfigXcmVersion) IN
         IF ~v.ok
         THEN [kind |-> "Validation", steps |-> <<"verify", "validate">>]
         ELSE [kind |-> "Ok", steps |-> <<"verify", "validate">>]

\* The two checks followed by a check that the destination is registered.
SubmitChecksKnownDestination(envelope, raw_payload, signature) ==
    LET v == validate(envelope, ConfigXcmVersion) IN
    IF ~v.ok
    THEN [kind |-> "Validation", steps |-> <<"validate">>]
    ELSE LET s == verify_signature(envelope.sender_para, raw_payload, signature) IN
         IF ~s.ok
         THEN [kind |-> "Signature", steps |-> <<"validate", "verify">>]
         ELSE IF envelope.dest_para \notin parachain_ids
         THEN [kind |-> "Validation", steps |-> <<"validate", "verify">>]
         ELSE [kind |-> "Ok", steps |-> <<"validate", "verify">>]

\* Lines 54-57: validate, then verify_signature; `?` returns the first
\* error.  kind is the ProcessorError variant (or "Ok"), steps the calls
\* made, in order.
SubmitChecks(envelope, raw_payload, signature) ==
    LET v == validate(envelope, ConfigXcmVersion) IN
    IF ~v.ok
    THEN [kind |-> "Validation", steps |-> <<"validate">>]
    ELSE LET s == verify_signature(envelope.sender_para, raw_payload, signature) IN
         IF ~s.ok
         THEN [kind |-> "Signature", steps |-> <<"validate", "verify">>]
         ELSE [kind |-> "Ok", steps |-> <<"validate", "verify">>]

\* Lines 58-61: the caller-supplied id, or a freshly minted one.
ResolveMessageId(envelope, n) ==
    IF envelope.message_id # <<>> THEN envelope.message_id[1] ELSE Uuid(n)

\* Number of identifiers minted to resolve the id of an envelope.
Minted(envelope) == IF envelope.message_id # <<>> THEN 0 ELSE 1

\* Lines 69-75: the record admission inserts.
PendingRecord(envelope) == MessageRecord(Pending, <<envelope.sender_para>>)

\* The value submit_message returns on success: Ok(()) (line 53: the
\* function's result type is Result<(), ProcessorError>).
SubmitOkValue(message_id) == <<>>

\* A call that validate or verify_signature rejects: it returns the error
\* and touches nothing.
SubmitReject(p, envelope, raw_payload, signature) ==
    LET chk == SubmitChecks(envelope, raw_payload, signature) IN
    /\ sub[p].pc = "idle"
    /\ calls < MaxCalls
    /\ chk.kind # "Ok"
    /\ calls' = calls + 1
    /\ ret' = [call |-> calls + 1, kind |-> chk.kind, value |-> <<>>,
               steps |-> chk.steps]
    /\ UNCHANGED <<probe, messages, parachains, queue, rxOpen, nextUuid, sub, wpc,
                   cur, admitted, processed>>

\* An admission that reaches the send without inserting the record.
SubmitAdmitNoRegister(p, envelope, raw_payload, signature) ==
    /\ sub[p].pc = "idle"
    /\ calls < MaxCalls
    /\ SubmitChecks(envelope, raw_payload, signature).kind = "Ok"
    /\ calls' = calls + 1
    /\ nextUuid' = nextUuid + Minted(envelope)
    /\ sub' = [sub EXCEPT ![p] =
                 [pc |-> "send", envelope |-> envelope,
                  raw_payload |-> raw_payload, signature |-> signature,
                  message_id |-> ResolveMessageId(envelope, nextUuid + 1),
                  call |-> calls + 1,
                  steps |-> <<"validate", "verify", "register">>]]
    /\ admitted' = ((calls + 1) :>
                      [message_id |-> ResolveMessageId(envelope, nextUuid + 1),
                       envelope |-> envelope, result |-> "None",
                       enqueued |-> FALSE, seq |-> 0]) @@ admitted
    /\ UNCHANGED <<probe, messages, parachains, queue, rxOpen, wpc, cur, ret,
                   processed>>

\* An admission that also pushes a log line on the sender's ledger.
SubmitAdmitLogsOnLedger(p, envelope, raw_payload, signature) ==
    /\ sub[p].pc = "idle"
    /\ calls < MaxCalls
    /\ SubmitChecks(envelope, raw_payload, signature).kind = "Ok"
    /\ calls' = calls + 1
    /\ nextUuid' = nextUuid + Minted(envelope)
    /\ messages' = MapInsert(messages,
                             ResolveMessageId(envelope, nextUuid + 1),
                             PendingRecord(envelope))
    /\ parachains' = [parachains EXCEPT ![envelope.sender_para].logs =
                         Append(@, "Message admitted")]
    /\ sub' = [sub EXCEPT ![p] =
                 [pc |-> "send", envelope |-> envelope,
                  raw_payload |-> raw_payload, signature |-> signature,
                  message_id |-> ResolveMessageId(envelope, nextUuid + 1),
                  call |-> calls + 1,
                  steps |-> <<"validate", "verify", "register">>]]
    /\ admitted' = ((calls + 1) :>
                      [message_id |-> ResolveMessageId(envelope, nextUuid + 1),
                       envelope |-> envelope, result |-> "None",
                       enqueued |-> FALSE, seq |-> 0]) @@ admitted
    /\ UNCHANGED <<probe, queue, rxOpen, wpc, cur, ret, processed>>

\* A call that passes both checks: it resolves the id and inserts the
\* Pending record under the write lock (lines 58-76), then reaches the
\* send().await of line 78.
SubmitAdmit(p, envelope, raw_payload, signature) ==
    LET chk == SubmitChecks(envelope, raw_payload, signature)
        message_id == ResolveMessageId(envelope, nextUuid + 1)
    IN
    /\ sub[p].pc = "idle"
    /\ calls < MaxCalls
    /\ chk.kind = "Ok"
    /\ calls' = calls + 1
    /\ nextUuid' = nextUuid + Minted(envelope)
    /\ messages' = MapInsert(messages, message_id, PendingRecord(envelope))
    /\ sub' = [sub EXCEPT ![p] =
                 [pc |-> "send", envelope |-> envelope,
                  raw_payload |-> raw_payload, signature |-> signature,
                  message_id |-> message_id,
                  call |-> calls + 1,
                  steps |-> Append(chk.steps, "register")]]
    /\ admitted' = ((calls + 1) :>
                      [message_id |-> message_id, envelope |-> envelope,
                       result |-> "None", enqueued |-> FALSE,
                       seq |-> 0]) @@ admitted
    /\ UNCHANGED <<probe, parachains, queue, rxOpen, wpc, cur, ret, processed>>

\* QueuedMessage { envelope, raw_payload } (lines 16-19).  call is history:
\* the number of the submit_message call that enqueued the item.
QueuedMessage(envelope, raw_payload, call) ==
    [envelope |-> envelope, raw_payload |-> raw_payload, call |-> call]

\* A send that completes whether or not the channel has a free slot.
SubmitSendOkUnbounded(p) ==
    /\ sub[p].pc = "send"
    /\ rxOpen
    /\ queue' = Append(queue, [envelope |-> sub[p].envelope,
                               raw_payload |-> sub[p].raw_payload,
                               call |-> sub[p].call])
    /\ ret' = [call |-> sub[p].call, kind |-> "Ok", value |-> <<>>,
               steps |-> Append(sub[p].steps, "enqueue")]
    /\ admitted' = [admitted EXCEPT ![sub[p].call].result = "Ok",
                                    ![sub[p].call].enqueued = TRUE]
    /\ sub' = [sub EXCEPT ![p] = IdleCall]
    /\ UNCHANGED <<probe, messages, parachains, rxOpen, nextUuid, wpc, cur,
                   calls, processed>>

\* Number of sends that have completed (history).
Enqueued == Cardinality({c \in DOMAIN admitted : admitted[c].enqueued})

\* Lines 78-85: send().await completes once the channel has a free slot;
\* the call returns Ok.  seq is history: the position of the send among the
\* completed sends.
SubmitSendOk(p) ==
    /\ sub[p].pc = "send"
    /\ rxOpen
    /\ Len(queue) < QueueCapacity
    /\ queue' = Append(queue, QueuedMessage(sub[p].envelope,
                                            sub[p].raw_payload, sub[p].call))
    /\ ret' = [call |-> sub[p].call, kind |-> "Ok",
               value |-> SubmitOkValue(sub[p].message_id),
               steps |-> Append(sub[p].steps, "enqueue")]
    /\ admitted' = [admitted EXCEPT ![sub[p].call].result = "Ok",
                                    ![sub[p].call].enqueued = TRUE,
                                    ![sub[p].call].seq = Enqueued + 1]
    /\ sub' = [sub EXCEPT ![p] = IdleCall]
    /\ UNCHANGED <<probe, messages, parachains, rxOpen, nextUuid, wpc, cur, calls,
                   processed>>

\* The send error discarded instead of mapped: the call returns Ok although
\* nothing was enqueued.
SubmitSendClosedReportsOk(p) ==
    /\ sub[p].pc = "send"
    /\ ~rxOpen
    /\ ret' = [call |-> sub[p].call, kind |-> "Ok", value |-> <<>>,
               steps |-> Append(sub[p].steps, "enqueue")]
    /\ admitted' = [admitted EXCEPT ![sub[p].call].result = "Ok"]
    /\ sub' = [sub EXCEPT ![p] = IdleCall]
    /\ UNCHANGED <<probe, messages, parachains, queue, rxOpen, nextUuid, wpc, cur,
                   calls, processed>>

\* Lines 78-85: send() fails because the Receiver is gone; the error is
\* mapped to ProcessorError::ChannelClosed.
SubmitSendClosed(p) ==
    /\ sub[p].pc = "send"
    /\ ~rxOpen
    /\ ret' = [call |-> sub[p].call, kind |-> "ChannelClosed", value |-> <<>>,
               steps |-> Append(sub[p].steps, "enqueue")]
    /\ admitted' = [admitted EXCEPT ![sub[p].call].result = "ChannelClosed"]
    /\ sub' = [sub EXCEPT ![p] = IdleCall]
    /\ UNCHANGED <<probe, messages, parachains, queue, rxOpen, nextUuid, wpc, cur,
                   calls, processed>>

(***************************************************************************)
(* run_relay_loop and process_single_message                               *)
(***************************************************************************)
\* process_single_message, lines 142-144: the hop path of an envelope.
HopPath(envelope) == <<envelope.sender_para, envelope.dest_para>>

\* Lines 112-117: the status the loop writes for a result.
NewStatus(result) == IF result.ok THEN Relayed ELSE Failed(result.text)

\* A receive that reads the oldest item and leaves it in the channel.
RelayRecvKeepsItem ==
    /\ wpc = "recv"
    /\ rxOpen
    /\ queue # <<>>
    /\ cur' = [envelope |-> Head(queue).envelope,
               raw_payload |-> Head(queue).raw_payload,
               call |-> Head(queue).call,
               message_id |-> ResolveMessageId(Head(queue).envelope,
                                               nextUuid + 1),
               hops |-> HopPath(Head(queue).envelope), result |-> RelayOk]
    /\ nextUuid' = nextUuid + Minted(Head(queue).envelope)
    /\ wpc' = "hops"
    /\ UNCHANGED <<probe, messages, parachains, queue, rxOpen, sub, calls,
                   ret, admitted, processed>>

\* Lines 103-108 and 142-148: receive the oldest item, resolve the id the
\* loop will write the status under, compute the hop path and check it
\* against MAX_HOPS.
RelayRecv ==
    /\ wpc = "recv"
    /\ rxOpen
    /\ queue # <<>>
    /\ LET queued == Head(queue)
           message_id == ResolveMessageId(queued.envelope, nextUuid + 1)
           hops == HopPath(queued.envelope)
       IN
       /\ nextUuid' = nextUuid + Minted(queued.envelope)
       /\ queue' = Tail(queue)
       /\ IF Len(hops) > MAX_HOPS
          THEN /\ cur' = [envelope |-> queued.envelope,
                          raw_payload |-> queued.raw_payload,
                          call |-> queued.call, message_id |-> message_id,
                          hops |-> hops, result |-> HopLimitExceeded]
               /\ wpc' = "status"
          ELSE /\ cur' = [envelope |-> queued.envelope,
                          raw_payload |-> queued.raw_payload,
                          call |-> queued.call, message_id |-> message_id,
                          hops |-> hops, result |-> RelayOk]
               /\ wpc' = "hops"
    /\ UNCHANGED <<probe, messages, parachains, rxOpen, sub, calls, ret, admitted,
                   processed>>

\* Lines 150-163: under the write lock of the message map, resolve the id
\* again and store the hop path in the record found under it, if any.
RelayWriteHops ==
    /\ wpc = "hops"
    /\ LET message_id == ResolveMessageId(cur.envelope, nextUuid + 1) IN
       /\ nextUuid' = nextUuid + Minted(cur.envelope)
       /\ messages' =
            IF message_id \in DOMAIN messages
            THEN [messages EXCEPT ![message_id].hops = cur.hops]
            ELSE messages
    /\ wpc' = "dest"
    /\ UNCHANGED <<probe, parachains, queue, rxOpen, sub, cur, calls, ret, admitted,
                   processed>>

\* Line 176-179: the log line pushed on the destination chain.
ReceivedLog(envelope) ==
    "Received message with " \o ToString(Len(envelope.instructions))
        \o " instructions"

\* A destination step that notes the failure on the sender's ledger.
RelayDestLogsFailure ==
    /\ wpc = "dest"
    /\ IF cur.envelope.dest_para \in DOMAIN parachains
       THEN /\ parachains' =
                 [parachains EXCEPT ![cur.envelope.dest_para].logs =
                     Append(@, ReceivedLog(cur.envelope))]
            /\ cur' = [cur EXCEPT !.result = RelayOk]
       ELSE /\ parachains' =
                 [parachains EXCEPT ![cur.envelope.sender_para].logs =
                     Append(@, "Message undeliverable")]
            /\ cur' = [cur EXCEPT !.result =
                          UnknownDestination(cur.envelope.dest_para)]
    /\ wpc' = "status"
    /\ UNCHANGED <<probe, messages, queue, rxOpen, nextUuid, sub, calls, ret,
                   admitted, processed>>

\* A destination step that creates the ledger of an unknown destination
\* (entry().or_default() in place of get_mut).
RelayDestRegistersUnknown ==
    /\ wpc = "dest"
    /\ parachains' =
          [para_id \in DOMAIN parachains \cup {cur.envelope.dest_para} |->
              IF para_id # cur.envelope.dest_para
              THEN parachains[para_id]
              ELSE [balances |->
                        IF para_id \in DOMAIN parachains
                        THEN parachains[para_id].balances
                        ELSE ParachainStateDefault.balances,
                    logs |->
                        Append(IF para_id \in DOMAIN parachains
                               THEN parachains[para_id].logs
                               ELSE <<>>,
                               ReceivedLog(cur.envelope))]]
    /\ cur' = [cur EXCEPT !.result = RelayOk]
    /\ wpc' = "status"
    /\ UNCHANGED <<probe, messages, queue, rxOpen, nextUuid, sub, calls, ret,
                   admitted, processed>>

\* Lines 165-181: under the write lock of the parachain map, look the
\* destination up; push the log line, or fail with UnknownDestination.
RelayDest ==
    /\ wpc = "dest"
    /\ LET dest == cur.envelope.dest_para IN
       IF dest \in DOMAIN parachains
       THEN /\ parachains' =
                 [parachains EXCEPT ![dest].logs =
                     Append(@, ReceivedLog(cur.envelope))]
            /\ cur' = [cur EXCEPT !.result = RelayOk]
       ELSE /\ parachains' = parachains
            /\ cur' = [cur EXCEPT !.result = UnknownDestination(dest)]
    /\ wpc' = "status"
    /\ UNCHANGED <<probe, messages, queue, rxOpen, nextUuid, sub, calls, ret,
                   admitted, processed>>

\* Lines 124-134: the write-back of the status into the message map.
WriteBack(map, message_id, new_status) ==
    IF message_id \in DOMAIN map
    THEN [map EXCEPT ![message_id].status = new_status]
    ELSE MapInsert(map, message_id, MessageRecord(new_status, <<>>))

\* A loop that writes the status back and ends when the iteration failed.
RelayWriteStatusStopsOnFailure ==
    /\ wpc = "status"
    /\ messages' = WriteBack(messages, cur.message_id, NewStatus(cur.result))
    /\ processed' = Append(processed,
                           [call |-> cur.call, message_id |-> cur.message_id])
    /\ cur' = NoItem
    /\ wpc' = "recv"
    /\ rxOpen' = (rxOpen /\ cur.result.ok)
    /\ queue' = IF cur.result.ok THEN queue ELSE <<>>
    /\ UNCHANGED <<probe, parachains, nextUuid, sub, calls, ret, admitted>>

\* Lines 112-134: compute the new status and write it back under the write
\* lock of the message map; the iteration ends.
RelayWriteStatus ==
    /\ wpc = "status"
    /\ messages' = WriteBack(messages, cur.message_id, NewStatus(cur.result))
    /\ processed' = Append(processed,
                           [call |-> cur.call, message_id |-> cur.message_id])
    /\ cur' = NoItem
    /\ wpc' = "recv"
    /\ UNCHANGED <<probe, parachains, queue, rxOpen, nextUuid, sub, calls, ret,
                   admitted>>

RelayStep == RelayRecv \/ RelayWriteHops \/ RelayDest \/ RelayWriteStatus

\* The relay task is spawned on the runtime (lib.rs, tokio::spawn) and can
\* be cancelled only where it awaits, at recv().await.  Dropping the
\* Receiver closes the channel and discards the items still buffered.
ReceiverDropped ==
    /\ wpc = "recv"
    /\ rxOpen
    /\ rxOpen' = FALSE
    /\ queue' = <<>>
    /\ UNCHANGED <<probe, messages, parachains, nextUuid, sub, wpc, cur, calls, ret,
                   admitted, processed>>

Submit(p) ==
    \E envelope \in Envelopes :
        \E signature \in Signatures(envelope, Serialize(envelope)) :
            \/ SubmitReject(p, envelope, Serialize(envelope), signature)
            \/ SubmitAdmit(p, envelope, Serialize(envelope), signature)

Next ==
    \/ \E p \in Producers : Submit(p)
    \/ \E p \in Producers : SubmitSendOk(p)
    \/ \E p \in Producers : SubmitSendClosed(p)
    \/ RelayRecv
    \/ RelayWriteHops
    \/ RelayDest
    \/ RelayWriteStatus
    \/ ReceiverDropped

Spec == Init /\ [][Next]_vars

\* The relay worker is a spawned task that the runtime keeps scheduling.
FairSpec == Spec /\ WF_vars(RelayStep)

(***************************************************************************)
(* MessageEnvelope::validate applied on its own to an envelope and a       *)
(* configured version string.                                              *)
(***************************************************************************)
\* Instruction lists: none, one valid, one invalid, a valid one followed by
\* an invalid one, two valid ones, two invalid ones, a valid one followed
\* by two invalid ones, and one invalid instruction for each check of the
\* three kinds.
ValidateInstructionLists ==
    {<<>>,
     <<TransferReserveAsset(DOT, 10, Acct)>>,
     <<TransferReserveAsset(DOT, 0, Acct)>>,
     <<Transact(<<"c">>, <<>>), QueryResponse(<<"q">>, <<" ">>)>>,
     <<TransferReserveAsset(DOT, 10, Acct), Transact(<<"c">>, <<>>)>>,
     <<TransferReserveAsset(DOT, 0, Acct), Transact(<<" ">>, <<>>)>>,
     <<Transact(<<"c">>, <<7>>), QueryResponse(<<>>, <<"r">>),
       TransferReserveAsset(<<" ", "\t">>, 10, Acct)>>,
     <<TransferReserveAsset(DOT, 10, <<" ">>)>>,
     <<QueryResponse(<<"q">>, <<"r">>), Transact(<<>>, <<>>)>>}

ValidateEnvelopes ==
    {[message_id |-> m, sender_para |-> s, dest_para |-> d,
      xcm_version |-> v, instructions |-> i, signature |-> <<"deadbeef">>] :
        m \in {<<>>, <<"msg-1">>}, s \in {0, 1000, 2000},
        d \in {0, 1000, 2000}, v \in {"V3", "V4"},
        i \in ValidateInstructionLists}

\* Values of ParachainConfig.xcm_version: "V3", "v3", " v3 ", "V4", "v4\n",
\* "V5", "" and "V 3".
ConfiguredVersions ==
    {<<"V", "3">>, <<"v", "3">>, <<" ", "v", "3", " ">>, <<"V", "4">>,
     <<"v", "4", "\n">>, <<"V", "5">>, <<>>, <<"V", " ", "3">>}

ValidateInit ==
    /\ ServiceInit
    /\ \E envelope \in ValidateEnvelopes, configured \in ConfiguredVersions :
          probe = [fn |-> "validate", envelope |-> envelope,
                   configured |-> configured, done |-> FALSE,
                   result |-> ValidOk]

ValidateApply ==
    /\ probe.fn = "validate"
    /\ ~probe.done
    /\ probe' = [probe EXCEPT !.done = TRUE,
                              !.result = validate(probe.envelope,
                                                  probe.configured)]
    /\ UNCHANGED <<messages, parachains, queue, rxOpen, nextUuid, sub, wpc,
                   cur, calls, ret, admitted, processed>>

ValidateNext == ValidateApply

ValidateSpec == ValidateInit /\ [][ValidateNext]_vars

(***************************************************************************)
(* execution/mod.rs: DefaultExecutionEngine                                *)
(***************************************************************************)
\* u128::MAX
U128_MAX == 2 ^ U128Bits - 1

\* u128::wrapping_add
wrapping_add(a, b) == (a + b) % (2 ^ U128Bits)

\* u128::saturating_add
saturating_add(a, b) == IF a + b > U128_MAX THEN U128_MAX ELSE a + b

\* Display of a String (the model keeps strings as character sequences).
RECURSIVE Str(_)
Str(s) == IF s = <<>> THEN "" ELSE Head(s) \o Str(Tail(s))

\* apply_transfer(state, transfer)
apply_transfer(state, transfer) ==
    LET old == IF transfer.beneficiary \in DOMAIN state.balances
               THEN state.balances[transfer.beneficiary]
               ELSE 0
        entry == saturating_add(old, transfer.amount)
    IN [balances |-> MapInsert(state.balances, transfer.beneficiary, entry),
        logs |-> Append(state.logs,
                        "Balance updated: " \o Str(transfer.beneficiary)
                            \o " => " \o ToString(entry))]

\* Option<u64>::unwrap_or_default
UnwrapOrDefault(weight) == IF weight = <<>> THEN 0 ELSE weight[1]

\* apply_transact that starts the log anew with its line.
apply_transact_truncates(state, transact) ==
    [state EXCEPT !.logs =
        <<"Transact executed: call_data_len="
              \o ToString(Len(transact.call_data)) \o ", weight="
              \o ToString(UnwrapOrDefault(transact.weight))>>]

\* apply_transact(state, transact)
apply_transact(state, transact) ==
    [state EXCEPT !.logs =
        Append(@, "Transact executed: call_data_len="
                      \o ToString(Len(transact.call_data)) \o ", weight="
                      \o ToString(UnwrapOrDefault(transact.weight)))]

\* apply_query(state, response)
apply_query(state, response) ==
    [state EXCEPT !.logs =
        Append(@, "QueryResponse stored: id=" \o Str(response.query_id)
                      \o ", response=" \o Str(response.response))]

\* The line execute pushes on the outcome's logs for an instruction.
OutcomeLog(instruction) ==
    CASE instruction.type = "TransferReserveAsset" ->
            "TransferReserveAsset: " \o ToString(instruction.amount) \o " "
                \o Str(instruction.asset) \o " to "
                \o Str(instruction.beneficiary)
      [] instruction.type = "Transact" ->
            "Transact: call_data=" \o ToString(Len(instruction.call_data))
                \o " bytes, weight="
                \o ToString(UnwrapOrDefault(instruction.weight))
      [] instruction.type = "QueryResponse" ->
            "QueryResponse: id=" \o Str(instruction.query_id)
                \o ", response_length="
                \o ToString(Len(instruction.response))

ApplyInstruction(state, instruction) ==
    CASE instruction.type = "TransferReserveAsset" ->
            apply_transfer(state, instruction)
      [] instruction.type = "Transact" -> apply_transact(state, instruction)
      [] instruction.type = "QueryResponse" -> apply_query(state, instruction)

\* The loop of execute over the first n instructions: the destination's
\* state and the outcome's logs after them.
RECURSIVE ExecuteInstructions(_, _, _)
ExecuteInstructions(dest_state, instructions, n) ==
    IF n = 0
    THEN [state |-> dest_state, logs |-> <<>>]
    ELSE LET r == ExecuteInstructions(dest_state, instructions, n - 1) IN
         [state |-> ApplyInstruction(r.state, instructions[n]),
          logs |-> Append(r.logs, OutcomeLog(instructions[n]))]

\* DefaultExecutionEngine::execute on a parachain map: the map after the
\* call and the call's result.
execute(map, message) ==
    IF message.dest_para \notin DOMAIN map
    THEN [parachains |-> map, ok |-> FALSE, logs |-> <<>>,
          error |-> "destination parachain " \o ToString(message.dest_para)
                        \o " not registered"]
    ELSE LET r == ExecuteInstructions(map[message.dest_para],
                                      message.instructions,
                                      Len(message.instructions))
         IN [parachains |-> [map EXCEPT ![message.dest_para] = r.state],
             ok |-> TRUE, logs |-> r.logs, error |-> ""]

Bob == <<"b", "o", "b">>

\* Instruction lists of validated messages: transfers of a small amount, of
\* an amount that saturates when repeated, and of the largest amount; a
\* second beneficiary; two transfers in one message; no transfer at all.
ExecuteInstructionLists ==
    {<<TransferReserveAsset(DOT, 1, Acct)>>,
     <<TransferReserveAsset(DOT, 10, Acct)>>,
     <<TransferReserveAsset(DOT, U128_MAX, Acct)>>,
     <<TransferReserveAsset(DOT, 10, Bob)>>,
     <<TransferReserveAsset(DOT, 10, Acct), TransferReserveAsset(DOT, 1, Acct)>>,
     <<Transact(<<"c">>, <<>>), QueryResponse(<<"q">>, <<"r">>)>>}

ExecuteMessages ==
    {[SampleMessage EXCEPT !.dest_para = d, !.instructions = i] :
        d \in {2000, 9999}, i \in ExecuteInstructionLists}

ExecuteInit ==
    /\ ServiceInit
    /\ probe = [fn |-> "execute", count |-> 0, message |-> SampleMessage,
                ok |-> TRUE, logs |-> <<>>, error |-> ""]

\* One call of execute on the shared parachain map.
ExecuteCall ==
    /\ probe.fn = "execute"
    /\ probe.count < MaxExecutions
    /\ \E message \in ExecuteMessages :
          LET r == execute(parachains, message) IN
          /\ parachains' = r.parachains
          /\ probe' = [fn |-> "execute", count |-> probe.count + 1,
                       message |-> message, ok |-> r.ok, logs |-> r.logs,
                       error |-> r.error]
    /\ UNCHANGED <<messages, queue, rxOpen, nextUuid, sub, wpc, cur, calls,
                   ret, admitted, processed>>

ExecuteNext == ExecuteCall

ExecuteSpec == ExecuteInit /\ [][ExecuteNext]_vars

(***************************************************************************)
(* DefaultExecutionEngine::execute step by step, called from several       *)
(* threads on the shared ServiceState (the engine is Send + Sync and the   *)
(* state is behind Arc), next to a reader of the parachain map             *)
(* (ServiceState::parachain_count).  probe holds the RwLock of the         *)
(* parachain map and the position of every thread.                         *)
(***************************************************************************)
Executors == {"e1", "e2"}

\* Messages for the engine: to two registered chains and an unregistered
\* one; instructions of all three kinds.
LockMessages ==
    {[SampleMessage EXCEPT !.sender_para = IF d = 1000 THEN 2000 ELSE 1000,
                           !.dest_para = d, !.instructions = i] :
        d \in {1000, 2000, 9999},
        i \in {<<TransferReserveAsset(DOT, 10, Acct),
                 Transact(<<"c", "d">>, <<7>>)>>,
               <<Transact(<<"c">>, <<>>), QueryResponse(<<"q">>, <<"r">>),
                 TransferReserveAsset(DOT, 1, Acct)>>}}

\* An executor outside execute.
IdleExecutor ==
    [pc |-> "idle", message |-> SampleMessage, i |-> 0,
     before |-> InitialParachains]

LockInit ==
    /\ ServiceInit
    /\ probe = [fn |-> "lock", writer |-> "none", rd |-> "idle", len |-> 0,
                ex |-> [e \in Executors |-> IdleExecutor],
                whole |-> InitialParachains, count |-> 0]

\* A thread calls execute(message) and reaches parachains.write().
ExecuteBegin(e) ==
    /\ probe.fn = "lock"
    /\ probe.ex[e].pc = "idle"
    /\ probe.count < MaxExecutions
    /\ \E message \in LockMessages :
          probe' = [probe EXCEPT !.count = @ + 1,
                                 !.ex[e] = [pc |-> "wait", message |-> message,
                                            i |-> 1, before |-> parachains]]
    /\ UNCHANGED <<messages, parachains, queue, rxOpen, nextUuid, sub, wpc,
                   cur, calls, ret, admitted, processed>>

\* Lines 41-52: write() returns once no other guard of the map exists;
\* get_mut finds the destination, or execute returns UnknownParachain and
\* the guard is dropped.
ExecuteLock(e) ==
    /\ probe.fn = "lock"
    /\ probe.ex[e].pc = "wait"
    /\ probe.writer = "none"
    /\ probe.rd # "reading"
    /\ IF probe.ex[e].message.dest_para \in DOMAIN parachains
       THEN probe' = [probe EXCEPT !.writer = e,
                                   !.ex[e].pc = "locked",
                                   !.ex[e].before = parachains]
       ELSE probe' = [probe EXCEPT !.ex[e] = IdleExecutor]
    /\ UNCHANGED <<messages, parachains, queue, rxOpen, nextUuid, sub, wpc,
                   cur, calls, ret, admitted, processed>>

\* One round of the loop with the guard given up after the instruction.
ExecuteInstructionUnlocks(e) ==
    /\ probe.fn = "lock"
    /\ probe.ex[e].pc = "locked"
    /\ probe.ex[e].i <= Len(probe.ex[e].message.instructions)
    /\ parachains' =
          [parachains EXCEPT ![probe.ex[e].message.dest_para] =
              ApplyInstruction(@, probe.ex[e].message.instructions[probe.ex[e].i])]
    /\ probe' = [probe EXCEPT !.ex[e].i = @ + 1, !.writer = "none"]
    /\ UNCHANGED <<messages, queue, rxOpen, nextUuid, sub, wpc, cur, calls,
                   ret, admitted, processed>>

\* Lines 56-83: one round of the loop over the instructions, under the
\* guard.
ExecuteInstruction(e) ==
    /\ probe.fn = "lock"
    /\ probe.ex[e].pc = "locked"
    /\ probe.writer = e
    /\ probe.ex[e].i <= Len(probe.ex[e].message.instructions)
    /\ parachains' =
          [parachains EXCEPT ![probe.ex[e].message.dest_para] =
              ApplyInstruction(@, probe.ex[e].message.instructions[probe.ex[e].i])]
    /\ probe' = [probe EXCEPT !.ex[e].i = @ + 1]
    /\ UNCHANGED <<messages, queue, rxOpen, nextUuid, sub, wpc, cur, calls,
                   ret, admitted, processed>>

\* Line 85: execute returns and the guard is dropped.  whole is history:
\* the map as the last finished call left it.
ExecuteReturn(e) ==
    /\ probe.fn = "lock"
    /\ probe.ex[e].pc = "locked"
    /\ probe.ex[e].i > Len(probe.ex[e].message.instructions)
    /\ probe' = [probe EXCEPT !.writer = "none", !.ex[e] = IdleExecutor,
                              !.whole = parachains]
    /\ UNCHANGED <<messages, parachains, queue, rxOpen, nextUuid, sub, wpc,
                   cur, calls, ret, admitted, processed>>

\* ServiceState::parachain_count: a thread reaches parachains.read().
ReadBegin ==
    /\ probe.fn = "lock"
    /\ probe.rd = "idle"
    /\ probe' = [probe EXCEPT !.rd = "wait"]
    /\ UNCHANGED <<messages, parachains, queue, rxOpen, nextUuid, sub, wpc,
                   cur, calls, ret, admitted, processed>>

\* read() returns once no write guard exists.
ReadLock ==
    /\ probe.fn = "lock"
    /\ probe.rd = "wait"
    /\ probe.writer = "none"
    /\ probe' = [probe EXCEPT !.rd = "reading"]
    /\ UNCHANGED <<messages, parachains, queue, rxOpen, nextUuid, sub, wpc,
                   cur, calls, ret, admitted, processed>>

\* map.len() is read and the read guard is dropped.
ReadReturn ==
    /\ probe.fn = "lock"
    /\ probe.rd = "reading"
    /\ probe' = [probe EXCEPT !.rd = "idle",
                              !.len = Cardinality(DOMAIN parachains)]
    /\ UNCHANGED <<messages, parachains, queue, rxOpen, nextUuid, sub, wpc,
                   cur, calls, ret, admitted, processed>>

LockNext ==
    \/ \E e \in Executors : ExecuteBegin(e)
    \/ \E e \in Executors : ExecuteLock(e)
    \/ \E e \in Executors : ExecuteInstruction(e)
    \/ \E e \in Executors : ExecuteReturn(e)
    \/ ReadBegin
    \/ ReadLock
    \/ ReadReturn

LockSpec == LockInit /\ [][LockNext]_vars

(***************************************************************************)
(* api/mod.rs: the submit_message handler, applied to one request.         *)
(***************************************************************************)
\* The text of the envelope's signature field is modelled by whether it is
\* hexadecimal and by the bytes it then stands for.
HexEncode(bytes) == [valid |-> TRUE, bytes |-> bytes]

NotHex == [valid |-> FALSE, bytes |-> [len |-> 0, signer |-> 0, msg |-> <<>>]]

\* hex::decode
HexDecode(text) ==
    IF text.valid
    THEN [ok |-> TRUE, bytes |-> text.bytes]
    ELSE [ok |-> FALSE, bytes |-> NotHex.bytes]

\* The envelope a client has before signing: no signature attached.
Unsigned(envelope) == [envelope EXCEPT !.signature = <<>>]

\* What a client attaches to its unsigned envelope: nothing, text that is
\* not hexadecimal, or the hex text of a signature by some key over the
\* serialization of the unsigned envelope.
Attachments(unsigned) ==
    {<<>>, <<NotHex>>} \cup
    {<<HexEncode(Sign(c, Serialize(unsigned)))>> :
        c \in KeyRegistry \cup {unsigned.sender_para}}

ApiPayloads ==
    UNION {{[Unsigned(e) EXCEPT !.signature = a] :
               a \in Attachments(Unsigned(e))} : e \in Envelopes}

\* Lines 111-127: serialize the payload, require and decode the signature,
\* and hand envelope, bytes and signature to the processor's checks.
ApiChecks(payload) ==
    LET raw_payload == Serialize(payload) IN
    IF payload.signature = <<>>
    THEN [kind |-> "Validation", detail |-> "signature is required",
          raw_payload |-> raw_payload]
    ELSE LET decoded == HexDecode(payload.signature[1]) IN
         IF ~decoded.ok
         THEN [kind |-> "Validation", detail |-> "signature decoding failed",
               raw_payload |-> raw_payload]
         ELSE [kind |-> SubmitChecks(payload, raw_payload, decoded.bytes).kind,
               detail |-> "", raw_payload |-> raw_payload]

ApiInit ==
    /\ ServiceInit
    /\ \E payload \in ApiPayloads :
          probe = [fn |-> "api", payload |-> payload, done |-> FALSE,
                   kind |-> "None", detail |-> "", raw_payload |-> <<>>]

\* The handler up to its answer or, for an accepted request, up to the
\* processor's send.
ApiSubmit ==
    /\ probe.fn = "api"
    /\ ~probe.done
    /\ LET r == ApiChecks(probe.payload)
           message_id == ResolveMessageId(probe.payload, nextUuid + 1)
       IN
       /\ probe' = [probe EXCEPT !.done = TRUE, !.kind = r.kind,
                                 !.detail = r.detail,
                                 !.raw_payload = r.raw_payload]
       /\ IF r.kind = "Ok"
          THEN /\ calls' = calls + 1
               /\ nextUuid' = nextUuid + Minted(probe.payload)
               /\ messages' = MapInsert(messages, message_id,
                                        PendingRecord(probe.payload))
               /\ sub' = [sub EXCEPT !["p1"] =
                            [pc |-> "send", envelope |-> probe.payload,
                             raw_payload |-> r.raw_payload,
                             signature |-> HexDecode(probe.payload.signature[1]).bytes,
                             message_id |-> message_id, call |-> calls + 1,
                             steps |-> <<"validate", "verify", "register">>]]
               /\ admitted' = ((calls + 1) :>
                                 [message_id |-> message_id,
                                  envelope |-> probe.payload,
                                  result |-> "None", enqueued |-> FALSE,
                                  seq |-> 0]) @@ admitted
          ELSE UNCHANGED <<calls, nextUuid, messages, sub, admitted>>
    /\ UNCHANGED <<parachains, queue, rxOpen, wpc, cur, ret, processed>>

ApiNext == ApiSubmit

ApiSpec == ApiInit /\ [][ApiNext]_vars

(***************************************************************************)
(* Notions the properties are stated with.                                 *)
(***************************************************************************)
Calls == 1 .. MaxCalls

\* The calls whose submit_message returned Ok.
Succeeded == {c \in DOMAIN admitted : admitted[c].result = "Ok"}

Terminal(status) == status.tag \in {"Executed", "Failed"}

\* The signature is the registered sender's signature over the payload.
SignatureVerifies(envelope, raw_payload, signature) ==
    /\ envelope.sender_para \in parachain_ids
    /\ signature = Sign(envelope.sender_para, raw_payload)

\* The step is producer p's submit_message call with these arguments, up to
\* its return or its first suspension.
SubmitCall(p, envelope, signature) ==
    \/ SubmitReject(p, envelope, Serialize(envelope), signature)
    \/ SubmitAdmit(p, envelope, Serialize(envelope), signature)

\* Nothing is buffered, in flight or being processed, and the worker runs.
Drained ==
    /\ rxOpen
    /\ queue = <<>>
    /\ wpc = "recv"
    /\ \A p \in Producers : sub[p].pc = "idle"

\* The balance of a beneficiary on a chain (absent counts as 0).
Balance(para_id, beneficiary) ==
    IF beneficiary \in DOMAIN parachains[para_id].balances
    THEN parachains[para_id].balances[beneficiary]
    ELSE 0

\* The amount the instructions, from position i on, transfer to a beneficiary.
RECURSIVE TransferredBy(_, _, _)
TransferredBy(instructions, i, beneficiary) ==
    IF i > Len(instructions)
    THEN 0
    ELSE (IF /\ instructions[i].type = "TransferReserveAsset"
             /\ instructions[i].beneficiary = beneficiary
          THEN instructions[i].amount
          ELSE 0) + TransferredBy(instructions, i + 1, beneficiary)

\* The amount the successfully submitted calls up to c transfer to a
\* beneficiary on a chain.
RECURSIVE TransferredTo(_, _, _)
TransferredTo(c, para_id, beneficiary) ==
    IF c = 0
    THEN 0
    ELSE (IF c \in Succeeded /\ admitted[c].envelope.dest_para = para_id
          THEN TransferredBy(admitted[c].envelope.instructions, 1, beneficiary)
          ELSE 0) + TransferredTo(c - 1, para_id, beneficiary)

Beneficiaries(envelope) ==
    {envelope.instructions[i].beneficiary :
        i \in {j \in 1 .. Len(envelope.instructions) :
                 envelope.instructions[j].type = "TransferReserveAsset"}}

\* No other admitted call resolved to the same message id as call c.
SoleUseOfId(c) ==
    \A d \in DOMAIN admitted :
        d # c => admitted[d].message_id # admitted[c].message_id

(***************************************************************************)
(* C1.  Liveness of the pipeline: if the relay worker keeps running, the   *)
(* record registered under the resolved id of every successfully submitted *)
(* message eventually has status Executed or Failed.                       *)
(***************************************************************************)
C1_EventuallyTerminal ==
    \A c \in Calls :
        (c \in Succeeded)
            ~> (\/ ~rxOpen
                \/ /\ c \in DOMAIN admitted
                   /\ Terminal(messages[admitted[c].message_id].status))

(***************************************************************************)
(* C2.  Status state machine: the only status changes of a record are      *)
(* Pending -> Executed and Pending -> Failed; a record whose status is     *)
(* Executed or Failed never changes status again.                          *)
(***************************************************************************)
C2_StatusMachine ==
    [][\A id \in DOMAIN messages :
          messages'[id].status # messages[id].status
              => /\ messages[id].status.tag = "Pending"
                 /\ Terminal(messages'[id].status)]_vars

(***************************************************************************)
(* C3.  A successful submit returns the resolved message id, and when it   *)
(* returns a record exists under that id: Pending with hops [sender],      *)
(* unless the relay worker has finalized it already.                       *)
(***************************************************************************)
C3_SubmitReturnsId ==
    ret.kind = "Ok" =>
        LET a == admitted[ret.call] IN
        /\ ret.value = <<a.message_id>>
        /\ a.message_id \in DOMAIN messages
        /\ \/ messages[a.message_id] = PendingRecord(a.envelope)
           \/ Terminal(messages[a.message_id].status)

(***************************************************************************)
(* C4.  Message-id correlation: the relay worker writes the final status   *)
(* of a message under the id that admission resolved and registered for it.*)
(***************************************************************************)
C4_IdCorrelation ==
    \A i \in 1 .. Len(processed) :
        processed[i].message_id = admitted[processed[i].call].message_id

(***************************************************************************)
(* C5.  A submit of a structurally valid envelope whose signature does not *)
(* verify for the sender chain (wrong signature, or sender not in the key  *)
(* registry) fails with a Signature error, leaves the message map          *)
(* unchanged and enqueues nothing.  In three parts: the checks of submit   *)
(* answer Signature for every such input; a step that admits a call admits *)
(* one whose signature verifies; a step in which a call returns a          *)
(* Signature error changes neither the message map nor the queue nor any   *)
(* call in progress.                                                       *)
(***************************************************************************)
\* The arguments a submit_message call can be made with.
SubmitInputs ==
    UNION {{[envelope |-> e, raw_payload |-> Serialize(e), signature |-> sg] :
               sg \in Signatures(e, Serialize(e))} : e \in Envelopes}

BadSignatureInputs ==
    {in \in SubmitInputs :
        /\ validate(in.envelope, ConfigXcmVersion).ok
        /\ ~SignatureVerifies(in.envelope, in.raw_payload, in.signature)}

BadSignatureAnswer ==
    \A in \in BadSignatureInputs :
        SubmitChecks(in.envelope, in.raw_payload, in.signature)
            = [kind |-> "Signature", steps |-> <<"validate", "verify">>]

\* Producer p's call passes admission in this step.
Admits(p) == sub[p].pc = "idle" /\ sub'[p].pc = "send"

\* A call returns in this step.
Returns == ret' # ret

C5_BadSignatureRejected ==
    [][/\ BadSignatureAnswer
       /\ \A p \in Producers :
             Admits(p) => SignatureVerifies(sub'[p].envelope,
                                            sub'[p].raw_payload,
                                            sub'[p].signature)
       /\ (Returns /\ ret'.kind = "Signature")
             => /\ messages' = messages
                /\ queue' = queue
                /\ sub' = sub]_vars

\* A call was rejected with a Signature error while records existed.
C5_Witness ==
    /\ ret.kind = "Signature"
    /\ ret.steps = <<"validate", "verify">>
    /\ DOMAIN messages # {}

(***************************************************************************)
(* C6.  Validation short-circuits admission: when validate rejects the     *)
(* envelope, submit fails with a Validation error without calling verify,  *)
(* inserting a record or enqueueing; the steps of every submit occur in    *)
(* the order validate, verify, register, enqueue.  In four parts: the      *)
(* checks of submit answer Validation after the single step validate for   *)
(* every input validate rejects, whatever its signature; a step that       *)
(* admits a call admits one that validate accepts; a step in which a call  *)
(* returns a Validation error changes neither the message map nor the      *)
(* queue nor any call in progress; the steps recorded for every call are a *)
(* prefix of validate, verify, register, enqueue.                          *)
(***************************************************************************)
SubmitOrder == <<"validate", "verify", "register", "enqueue">>

IsPrefix(s, t) == Len(s) <= Len(t) /\ s = SubSeq(t, 1, Len(s))

StepsInOrder ==
    /\ IsPrefix(ret.steps, SubmitOrder)
    /\ \A p \in Producers : IsPrefix(sub[p].steps, SubmitOrder)

InvalidInputs ==
    {in \in SubmitInputs : ~validate(in.envelope, ConfigXcmVersion).ok}

InvalidAnswer ==
    \A in \in InvalidInputs :
        SubmitChecks(in.envelope, in.raw_payload, in.signature)
            = [kind |-> "Validation", steps |-> <<"validate">>]

C6_ValidationShortCircuits ==
    [][/\ InvalidAnswer
       /\ \A p \in Producers :
             Admits(p) => validate(sub'[p].envelope, ConfigXcmVersion).ok
       /\ (Returns /\ ret'.kind = "Validation")
             => /\ ret'.steps = <<"validate">>
                /\ messages' = messages
                /\ queue' = queue
                /\ sub' = sub
       /\ StepsInOrder']_vars

\* A call was rejected by validate alone while records existed.
C6_Witness ==
    /\ ret.kind = "Validation"
    /\ ret.steps = <<"validate">>
    /\ DOMAIN messages # {}

(***************************************************************************)
(* C7.  After the relay worker has drained the queue, every admitted       *)
(* message whose destination is a registered chain has status Executed,    *)
(* and the destination's balance of each TransferReserveAsset beneficiary  *)
(* has increased by exactly the transferred amounts.                       *)
(***************************************************************************)
C7_ExecutedAfterDrain ==
    Drained =>
        \A c \in Succeeded :
            LET envelope == admitted[c].envelope
                dest == envelope.dest_para
            IN
            dest \in parachain_ids =>
                /\ messages[admitted[c].message_id].status.tag = "Executed"
                /\ \A b \in Beneficiaries(envelope) :
                       Balance(dest, b) = TransferredTo(MaxCalls, dest, b)

(***************************************************************************)
(* C8.  No deduplication of transfers: the same TransferReserveAsset       *)
(* content submitted under two distinct message ids has, after both are    *)
(* relayed, increased the beneficiary's balance by twice the amount, and   *)
(* each of the two records has reached a terminal status.                  *)
(***************************************************************************)
C8_NoDeduplication ==
    Drained =>
        \A c1, c2 \in Succeeded :
            LET e1 == admitted[c1].envelope
                e2 == admitted[c2].envelope
            IN
            (/\ c1 < c2
             /\ admitted[c1].message_id # admitted[c2].message_id
             /\ e1.dest_para = e2.dest_para
             /\ e1.dest_para \in parachain_ids
             /\ e1.instructions = e2.instructions)
                => /\ \A b \in Beneficiaries(e1) :
                          /\ Balance(e1.dest_para, b)
                                >= 2 * TransferredBy(e1.instructions, 1, b)
                          /\ Balance(e1.dest_para, b)
                                = TransferredTo(MaxCalls, e1.dest_para, b)
                   /\ Terminal(messages[admitted[c1].message_id].status)
                   /\ Terminal(messages[admitted[c2].message_id].status)

(***************************************************************************)
(* C9.  A message admitted with an unregistered destination ends, after    *)
(* relay, with status Failed whose error text names the destination chain  *)
(* id, and its record's hop path is [sender, dest].  (Stated for messages  *)
(* whose id no other admitted message shares.)                             *)
(***************************************************************************)
C9_UnknownDestinationFailed ==
    \A i \in 1 .. Len(processed) :
        LET c == processed[i].call
            envelope == admitted[c].envelope
        IN
        (envelope.dest_para \notin parachain_ids /\ SoleUseOfId(c))
            => messages[admitted[c].message_id] =
                 MessageRecord(
                    Failed("destination parachain "
                             \o ToString(envelope.dest_para) \o " not found"),
                    <<envelope.sender_para, envelope.dest_para>>)

(***************************************************************************)
(* C10.  No message is silently dropped or processed twice: the submits    *)
(* that returned Ok are exactly those that enqueued their message; while   *)
(* the worker runs, each of them is buffered, being processed or processed *)
(* exactly once, and never more than once; a submit that has not enqueued  *)
(* has returned ChannelClosed or is still suspended at the send.           *)
(***************************************************************************)
TimesProcessed(c) ==
    Cardinality({i \in 1 .. Len(processed) : processed[i].call = c})

Occurrences(c) ==
    Cardinality({i \in 1 .. Len(queue) : queue[i].call = c})
        + (IF wpc # "recv" /\ cur.call = c THEN 1 ELSE 0)
        + TimesProcessed(c)

Full == Len(queue) >= QueueCapacity

Suspended(p) == sub[p].pc = "send" /\ rxOpen /\ Full

C11_BoundedBackpressure ==
    /\ [](Len(queue) <= QueueCapacity)
    /\ [](\A p \in Producers :
            (sub[p].pc = "send" /\ rxOpen)
                => ((ENABLED SubmitSendOk(p)) <=> ~Full))
    /\ [][/\ \A p \in Producers :
                Suspended(p) =>
                    /\ sub'[p] = sub[p]
                    /\ admitted'[sub[p].call] = admitted[sub[p].call]
                    /\ ret'.call # sub[p].call
          /\ (Returns /\ ret'.kind = "Ok") =>
                /\ queue' = Append(queue, queue'[Len(queue')])
                /\ queue'[Len(queue')].call = ret'.call
                /\ cur'.call # ret'.call
                /\ \A i \in 1 .. Len(processed') :
                      processed'[i].call # ret'.call]_vars

\* A producer is suspended at the full channel while the call before it has
\* returned Ok and its message still waits in the channel.
C11_Witness ==
    /\ \E p \in Producers : Suspended(p)
    /\ ret.kind = "Ok"
    /\ queue[1].call = ret.call
    /\ TimesProcessed(ret.call) = 0

(***************************************************************************)
(* C12: the worker processes the messages in the order in which their      *)
(* sends completed, and the log lines on a destination chain stand in      *)
(* that order.                                                             *)
(***************************************************************************)
\* The calls in the order of their completed sends.
RECURSIVE EnqueueOrder(_)
EnqueueOrder(n) ==
    IF n = 0
    THEN <<>>
    ELSE Append(EnqueueOrder(n - 1),
                CHOOSE c \in DOMAIN admitted : admitted[c].seq = n)

\* The calls in the order in which the worker took them up, followed by
\* those still in the channel.
WorkerOrder ==
    [i \in 1 .. Len(processed) |-> processed[i].call]
        \o (IF wpc # "recv" THEN <<cur.call>> ELSE <<>>)
        \o [i \in 1 .. Len(queue) |-> queue[i].call]

\* The log lines that the first n calls of an order push on chain para_id.
RECURSIVE LogsOf(_, _, _)
LogsOf(order, n, para_id) ==
    IF n = 0
    THEN <<>>
    ELSE LET envelope == admitted[order[n]].envelope IN
         IF envelope.dest_para = para_id
         THEN Append(LogsOf(order, n - 1, para_id), ReceivedLog(envelope))
         ELSE LogsOf(order, n - 1, para_id)

\* Number of calls whose iteration is past the push of the log line.
Logged == Len(processed) + (IF wpc = "status" THEN 1 ELSE 0)

C13_ChannelClosed ==
    /\ [](\A p \in Producers :
            (sub[p].pc = "send" /\ ~rxOpen)
                => /\ ENABLED SubmitSendClosed(p)
                   /\ ~ENABLED SubmitSendOk(p))
    /\ [][~rxOpen =>
            /\ ~rxOpen'
            /\ queue' = <<>>
            /\ Returns => ret'.kind \in {"Validation", "Signature",
                                         "ChannelClosed"}
            /\ \A p \in Producers :
                  (sub[p].pc = "send" /\ sub'[p] # sub[p]) =>
                      /\ ret'.call = sub[p].call
                      /\ ret'.kind = "ChannelClosed"
                      /\ sub'[p] = IdleCall]_vars

\* Two calls of valid, signed envelopes have returned ChannelClosed.
C13_Witness ==
    /\ ~rxOpen
    /\ calls = 2
    /\ \A c \in 1 .. 2 :
          c \in DOMAIN admitted /\ admitted[c].result = "ChannelClosed"
    /\ ret.kind = "ChannelClosed"

(***************************************************************************)
(* C14: a failed iteration does not end the loop.  Every iteration,        *)
(* whatever its result, ends with the worker back at the receive with the  *)
(* channel as it was, and at the receive the worker can take the next      *)
(* buffered message; the Receiver goes away only while the worker rests at *)
(* the receive.                                                            *)
(***************************************************************************)
C14_WorkerSurvivesFailure ==
    /\ []((rxOpen /\ wpc = "recv" /\ queue # <<>>) => ENABLED RelayRecv)
    /\ [][/\ (wpc = "status" /\ wpc' # wpc) =>
                /\ wpc' = "recv"
                /\ rxOpen' = rxOpen
                /\ queue' = queue
                /\ Len(processed') = Len(processed) + 1
          /\ (rxOpen /\ ~rxOpen') => (wpc = "recv" /\ wpc' = "recv")]_vars

\* The worker has processed a message after one whose iteration failed.
C14_Witness ==
    /\ Len(processed) = 2
    /\ admitted[processed[1].call].envelope.dest_para \notin DOMAIN parachains
    /\ \E message_id \in DOMAIN messages :
          messages[message_id].status.tag = "Failed"

(***************************************************************************)
(* C15: validate answers InvalidPayload for every envelope with a zero     *)
(* sender, a zero destination, equal sender and destination, or no         *)
(* instructions, whatever its version, its other fields and the configured *)
(* version.                                                                *)
(***************************************************************************)
Validated == probe.fn = "validate" /\ probe.done

StructurallyInvalid(envelope) ==
    \/ envelope.sender_para = 0
    \/ envelope.dest_para = 0
    \/ envelope.sender_para = envelope.dest_para
    \/ envelope.instructions = <<>>

C15_StructuralInvalidPayload ==
    (Validated /\ StructurallyInvalid(probe.envelope))
        => (~probe.result.ok /\ probe.result.code = "InvalidPayload")

\* An envelope without instructions whose version is not the configured one
\* got InvalidPayload.
C15_Witness ==
    /\ Validated
    /\ probe.envelope.instructions = <<>>
    /\ probe.envelope.sender_para = 1000
    /\ probe.envelope.dest_para = 2000
    /\ probe.envelope.xcm_version = "V4"
    /\ probe.configured = <<"V", "3">>
    /\ probe.result.code = "InvalidPayload"

(***************************************************************************)
(* C16: validate answers VersionMismatch exactly for a version that is not *)
(* the configured one.  The configured string names a version when it is   *)
(* the version's name in either case, surrounded by any whitespace.        *)
(***************************************************************************)
Spellings(version) ==
    CASE version = "V3" -> {<<"V", "3">>, <<"v", "3">>}
      [] version = "V4" -> {<<"V", "4">>, <<"v", "4">>}

VersionMatches(version, configured) ==
    \E i \in 0 .. Len(configured) :
        \E j \in i .. Len(configured) :
            /\ \A k \in 1 .. i : IsWhitespace(configured[k])
            /\ \A k \in (j + 1) .. Len(configured) : IsWhitespace(configured[k])
            /\ SubSeq(configured, i + 1, j) \in Spellings(version)

\* C16 as stated: VersionMismatch for every envelope whose version differs
\* from the configured one, and never when the versions match.
C16_VersionMismatchAlways ==
    Validated =>
        IF VersionMatches(probe.envelope.xcm_version, probe.configured)
        THEN probe.result.code # "VersionMismatch"
        ELSE probe.result.code = "VersionMismatch"

\* C16, amended: VersionMismatch for every envelope with non-zero, distinct
\* sender and destination and at least one instruction whose version
\* differs from the configured one, whatever its instructions are; never
\* VersionMismatch when the versions match.
C16_VersionMismatch ==
    Validated =>
        IF VersionMatches(probe.envelope.xcm_version, probe.configured)
        THEN probe.result.code # "VersionMismatch"
        ELSE ~StructurallyInvalid(probe.envelope)
                => (~probe.result.ok /\ probe.result.code = "VersionMismatch")

\* A V4 envelope with an invalid instruction got VersionMismatch under the
\* configured string " v3 ".
C16_Witness ==
    /\ Validated
    /\ probe.configured = <<" ", "v", "3", " ">>
    /\ probe.envelope.xcm_version = "V4"
    /\ ~StructurallyInvalid(probe.envelope)
    /\ ~ValidateInstructions(probe.envelope.instructions, 1).ok
    /\ probe.result.code = "VersionMismatch"

(***************************************************************************)
(* C17: a record is created only by admission and never deleted, and no    *)
(* step of a submit call changes the status or the hops of a record that   *)
(* exists already.                                                         *)
(***************************************************************************)
\* A step of some submit_message call.
SubmitStep == calls' # calls \/ sub' # sub

C17_RecordFrame ==
    [][/\ DOMAIN messages \subseteq DOMAIN messages'
       /\ (DOMAIN messages' # DOMAIN messages) => \E p \in Producers : Admits(p)
       /\ SubmitStep =>
             \A message_id \in DOMAIN messages :
                 messages'[message_id] = messages[message_id]]_vars

(***************************************************************************)
(* C18: no step of a submit call changes a chain's balances or logs; the   *)
(* ledgers change only in the worker's step on the destination chain,      *)
(* which leaves every submit call as it is.                                *)
(***************************************************************************)
C18_AdmissionLeavesLedgers ==
    [][/\ (SubmitStep \/ Returns) => parachains' = parachains
       /\ (parachains' # parachains) =>
             /\ wpc = "dest" /\ wpc' = "status"
             /\ ~SubmitStep
             /\ ~Returns]_vars

\* A call was admitted and has returned Ok after the worker had written on
\* the destination's ledger for the call before it.
C18_Witness ==
    /\ Len(processed) = 1
    /\ parachains[2000].logs # <<>>
    /\ ret.call = 2
    /\ ret.kind = "Ok"
    /\ processed[1].call = 1

(***************************************************************************)
(* C19: a call of execute leaves every balance of the destination chain at *)
(* the smaller of the largest value and the old balance (0 when absent)    *)
(* plus the amounts the message transfers to the beneficiary; no balance   *)
(* on any chain decreases, exceeds the largest value or disappears.        *)
(***************************************************************************)
Min(a, b) == IF a <= b THEN a ELSE b

Executes == probe.fn = "execute" /\ probe'.count = probe.count + 1

C19_SaturatingTransfer ==
    [][Executes =>
          \A para_id \in DOMAIN parachains :
              \A beneficiary \in {Acct, Bob} :
                  /\ Balance(para_id, beneficiary)' >= Balance(para_id, beneficiary)
                  /\ Balance(para_id, beneficiary)' <= U128_MAX
                  /\ Balance(para_id, beneficiary)' =
                        IF para_id = probe'.message.dest_para
                        THEN Min(Balance(para_id, beneficiary)
                                   + TransferredBy(probe'.message.instructions,
                                                   1, beneficiary),
                                 U128_MAX)
                        ELSE Balance(para_id, beneficiary)
                  /\ beneficiary \in DOMAIN parachains[para_id].balances
                        => beneficiary \in DOMAIN parachains'[para_id].balances]_vars

\* A transfer of 10 to a balance that stood at the largest value has left
\* it there.
C19_Witness ==
    /\ probe.fn = "execute"
    /\ probe.count = 2
    /\ probe.message.dest_para = 2000
    /\ probe.message.instructions = <<TransferReserveAsset(DOT, 10, Acct)>>
    /\ Balance(2000, Acct) = U128_MAX
    /\ parachains[2000].logs[1]
          = "Balance updated: acct => " \o ToString(U128_MAX)

(***************************************************************************)
(* C20: what a submit call returns is decided by validation, signature     *)
(* verification and the channel being open, never by the relay of the      *)
(* message.  Every valid, signed input passes the checks whatever its      *)
(* destination; a call at the send returns Ok when the channel is open and *)
(* ChannelClosed when it is closed; no step of the worker changes a call   *)
(* or a returned result; an iteration that fails writes a Failed status    *)
(* with the error text into the message map, for a call that was answered  *)
(* Ok.                                                                     *)
(***************************************************************************)
ValidSignedInputs ==
    {in \in SubmitInputs :
        /\ validate(in.envelope, ConfigXcmVersion).ok
        /\ SignatureVerifies(in.envelope, in.raw_payload, in.signature)}

ValidSignedAccepted ==
    \A in \in ValidSignedInputs :
        SubmitChecks(in.envelope, in.raw_payload, in.signature).kind = "Ok"

C20_FailuresStayInternal ==
    [][/\ ValidSignedAccepted
       /\ (calls' # calls) =>
             \/ \E p \in Producers : Admits(p) /\ ret' = ret
             \/ Returns /\ ret'.kind \in {"Validation", "Signature"}
       /\ \A p \in Producers :
             (sub[p].pc = "send" /\ sub'[p] # sub[p]) =>
                 /\ ret'.call = sub[p].call
                 /\ ret'.kind = IF rxOpen THEN "Ok" ELSE "ChannelClosed"
       /\ (wpc' # wpc) => (ret' = ret /\ sub' = sub /\ calls' = calls)
       /\ (wpc = "status" /\ wpc' = "recv" /\ ~cur.result.ok) =>
             /\ messages'[cur.message_id].status = Failed(cur.result.text)
             /\ admitted[cur.call].result = "Ok"]_vars

\* A message to an unregistered destination was answered Ok, and its
\* iteration has left a Failed status with the error text.
C20_Witness ==
    \E i \in 1 .. Len(processed) :
        /\ admitted[processed[i].call].envelope.dest_para = 9999
        /\ admitted[processed[i].call].result = "Ok"
        /\ processed[i].message_id \in DOMAIN messages
        /\ messages[processed[i].message_id].status
              = Failed("destination parachain 9999 not found")

(***************************************************************************)
(* C21: in every reachable state a Pending record has the hop path         *)
(* [sender] and a record with a terminal status has the hop path           *)
(* [sender, dest]: no state shows the two-hop path on a record that is     *)
(* still Pending.                                                          *)
(***************************************************************************)
C21_HopsWithStatus ==
    \A message_id \in DOMAIN messages :
        /\ messages[message_id].status.tag = "Pending"
              => Len(messages[message_id].hops) = 1
        /\ Terminal(messages[message_id].status)
              => Len(messages[message_id].hops) = 2

(***************************************************************************)
(* C22: every relay iteration ends with a record under the id of the       *)
(* processed message that carries the computed status and the hop path     *)
(* [sender, dest], whether the record existed before the write-back or     *)
(* was inserted by it.                                                     *)
(***************************************************************************)
\* The worker's write-back of the status happens in this step.
WritesBack == wpc = "status" /\ wpc' = "recv"

C22_OutcomeRecorded ==
    [][WritesBack =>
          /\ cur.message_id \in DOMAIN messages'
          /\ messages'[cur.message_id].status = NewStatus(cur.result)
          /\ messages'[cur.message_id].hops = HopPath(cur.envelope)]_vars

(***************************************************************************)
(* C23: at most one call of execute is applying instructions at a time;    *)
(* it holds the write guard, started from a map no call had left           *)
(* half-done, and has applied exactly the instructions before its          *)
(* position; whenever no call is applying instructions, and in particular  *)
(* whenever a reader holds the read guard, the map is as the last finished *)
(* call left it.                                                           *)
(***************************************************************************)
Applying == {e \in Executors : probe.ex[e].pc = "locked"}

C23_LedgerAtomicity ==
    /\ Cardinality(Applying) <= 1
    /\ \A e \in Applying :
          LET x == probe.ex[e] IN
          /\ probe.writer = e
          /\ probe.rd # "reading"
          /\ x.before = probe.whole
          /\ parachains =
                [x.before EXCEPT ![x.message.dest_para] =
                    ExecuteInstructions(x.before[x.message.dest_para],
                                        x.message.instructions, x.i - 1).state]
    /\ Applying = {} => parachains = probe.whole
    /\ probe.rd = "reading" => parachains = probe.whole

\* A call has applied the first of its instructions and not the last, while
\* the reader and the other call wait for the guard.
C23_Witness ==
    /\ probe.rd = "wait"
    /\ \E e \in Applying :
          /\ probe.ex[e].i > 1
          /\ probe.ex[e].i <= Len(probe.ex[e].message.instructions)
          /\ \E f \in Executors \ {e} : probe.ex[f].pc = "wait"

(***************************************************************************)
(* C25: a call of execute waits for the write guard only while a call for  *)
(* the same destination chain holds it.                                    *)
(***************************************************************************)
C25_NoCrossChainBlocking ==
    \A e \in Executors :
        (probe.ex[e].pc = "wait" /\ probe.writer # "none")
            => probe.ex[probe.writer].message.dest_para
                  = probe.ex[e].message.dest_para

(***************************************************************************)
(* C26: the step that applies a Transact or a QueryResponse instruction    *)
(* leaves every balance of every chain unchanged and appends one line to   *)
(* the destination's log: payload length and weight (0 when absent) for    *)
(* Transact, query id and response for QueryResponse; in every step every  *)
(* chain's old log is a prefix of its new log.                             *)
(***************************************************************************)
\* Executor e applies its next instruction in this step.
Applies(e) ==
    probe.ex[e].pc = "locked" /\ probe'.ex[e].i = probe.ex[e].i + 1

NoBalanceLine(instruction) ==
    IF instruction.type = "Transact"
    THEN "Transact executed: call_data_len="
             \o ToString(Len(instruction.call_data)) \o ", weight="
             \o ToString(IF instruction.weight = <<>> THEN 0
                         ELSE instruction.weight[1])
    ELSE "QueryResponse stored: id=" \o Str(instruction.query_id)
             \o ", response=" \o Str(instruction.response)

C26_NoBalanceEffect ==
    [][/\ \A para_id \in DOMAIN parachains :
             /\ para_id \in DOMAIN parachains'
             /\ IsPrefix(parachains[para_id].logs, parachains'[para_id].logs)
       /\ \A e \in Executors :
             LET instruction ==
                     probe.ex[e].message.instructions[probe.ex[e].i]
                 dest == probe.ex[e].message.dest_para
             IN (Applies(e) /\ instruction.type # "TransferReserveAsset") =>
                   /\ \A para_id \in DOMAIN parachains :
                         parachains'[para_id].balances
                             = parachains[para_id].balances
                   /\ parachains'[dest].logs
                         = Append(parachains[dest].logs,
                                  NoBalanceLine(instruction))
                   /\ \A para_id \in DOMAIN parachains \ {dest} :
                         parachains'[para_id] = parachains[para_id]]_vars

\* A Transact with a weight was applied after a transfer: the balance
\* stands and the log has the transfer's line and the Transact's line.
C26_Witness ==
    /\ probe.fn = "lock"
    /\ Balance(2000, Acct) = 10
    /\ parachains[2000].logs
          = <<"Balance updated: acct => 10",
              "Transact executed: call_data_len=2, weight=7">>

(***************************************************************************)
(* C24: no step of a relay iteration for a message to an unregistered      *)
(* destination changes a chain's ledger or the set of chains, and the only *)
(* record it changes or creates is the one under the id the worker uses    *)
(* for the message; the iteration ends with that record Failed with the    *)
(* unknown-destination error.                                              *)
(***************************************************************************)
\* A step of the relay worker.
WorkerStep == wpc' # wpc

C24_UnknownDestinationFrame ==
    [][LET item == IF wpc = "recv" THEN cur' ELSE cur IN
       (WorkerStep /\ item.envelope.dest_para \notin DOMAIN parachains) =>
           /\ parachains' = parachains
           /\ DOMAIN messages' \subseteq DOMAIN messages \cup {item.message_id}
           /\ \A message_id \in DOMAIN messages :
                 /\ message_id \in DOMAIN messages'
                 /\ message_id # item.message_id
                       => messages'[message_id] = messages[message_id]
           /\ WritesBack =>
                 messages'[item.message_id].status
                     = Failed(UnknownDestination(item.envelope.dest_para).text)]_vars

\* After a relayed message to chain 2000 a message to an unregistered
\* destination was processed: the first record and the ledger stand.
C24_Witness ==
    /\ Len(processed) = 2
    /\ admitted[processed[1].call].envelope.dest_para = 2000
    /\ admitted[processed[2].call].envelope.dest_para = 9999
    /\ processed[1].message_id # processed[2].message_id
    /\ messages[processed[1].message_id].status = Relayed
    /\ messages[processed[2].message_id].status.tag = "Failed"
    /\ Len(parachains[2000].logs) = 1

(***************************************************************************)
(* C27: in every reachable state the chains that have a ledger are exactly *)
(* the configured chain ids, and until the worker has written on a ledger  *)
(* every ledger has no balances and no logs.                               *)
(***************************************************************************)
C27_ChainSetFixed ==
    /\ DOMAIN parachains = parachain_ids
    /\ (processed = <<>> /\ wpc # "status") =>
          \A para_id \in parachain_ids :
              parachains[para_id] = ParachainStateDefault

\* A message to an unregistered destination and then one to chain 2000
\* have been processed.
C27_Witness ==
    /\ Len(processed) = 2
    /\ admitted[processed[1].call].envelope.dest_para = 9999
    /\ admitted[processed[2].call].envelope.dest_para = 2000
    /\ parachains[2000].logs # <<>>

(***************************************************************************)
(* C30: a call at the send has its record in the message map, and every    *)
(* message with a caller-supplied id that is in the channel or in the      *)
(* worker's hands has a record under that id, which is also the id the     *)
(* worker writes under: the write-back finds the record.                   *)
(***************************************************************************)
\* The items in the channel and the one the worker is processing.
InFlight ==
    {queue[i] : i \in 1 .. Len(queue)} \cup
    (IF wpc # "recv"
     THEN {QueuedMessage(cur.envelope, cur.raw_payload, cur.call)}
     ELSE {})

C30_RegisteredBeforeEnqueue ==
    /\ \A p \in Producers :
          sub[p].pc = "send" => sub[p].message_id \in DOMAIN messages
    /\ \A item \in InFlight :
          item.envelope.message_id # <<>> =>
              /\ item.envelope.message_id[1] \in DOMAIN messages
              /\ admitted[item.call].message_id = item.envelope.message_id[1]
    /\ (wpc # "recv" /\ cur.envelope.message_id # <<>>) =>
          /\ cur.message_id = cur.envelope.message_id[1]
          /\ cur.message_id \in DOMAIN messages

\* The worker is about to write the status of a message with a
\* caller-supplied id back while another such message waits in the channel.
C30_Witness ==
    /\ wpc = "status"
    /\ cur.envelope.message_id = <<"msg-1">>
    /\ Len(queue) = 1
    /\ queue[1].envelope.message_id = <<"msg-2">>
    /\ messages["msg-2"].status = Pending

(***************************************************************************)
(* C28: for an envelope with non-zero, distinct sender and destination, at *)
(* least one instruction and the configured version, validate answers Ok   *)
(* exactly when every instruction is valid, and otherwise InvalidPayload   *)
(* with a detail that names the position (counted from 0) of the first     *)
(* invalid instruction.                                                    *)
(***************************************************************************)
Blank(s) == \A k \in 1 .. Len(s) : IsWhitespace(s[k])

InstructionIsValid(instruction) ==
    CASE instruction.type = "TransferReserveAsset" ->
            /\ ~Blank(instruction.asset)
            /\ instruction.amount > 0
            /\ ~Blank(instruction.beneficiary)
      [] instruction.type = "Transact" -> ~Blank(instruction.call_data)
      [] instruction.type = "QueryResponse" ->
            /\ ~Blank(instruction.query_id)
            /\ ~Blank(instruction.response)

InvalidPositions(instructions) ==
    {i \in 1 .. Len(instructions) : ~InstructionIsValid(instructions[i])}

FirstInvalid(instructions) ==
    CHOOSE i \in InvalidPositions(instructions) :
        \A j \in InvalidPositions(instructions) : i <= j

C28_InstructionValidity ==
    (/\ Validated
     /\ ~StructurallyInvalid(probe.envelope)
     /\ VersionMatches(probe.envelope.xcm_version, probe.configured))
        => IF InvalidPositions(probe.envelope.instructions) = {}
           THEN probe.result = ValidOk
           ELSE LET first == FirstInvalid(probe.envelope.instructions) IN
                /\ ~probe.result.ok
                /\ probe.result.code = "InvalidPayload"
                /\ probe.result.idx = first - 1
                /\ probe.result.detail =
                      "instruction " \o ToString(first - 1) \o " invalid: "
                          \o InstructionValidate(
                                 probe.envelope.instructions[first]).detail

\* An envelope whose second and third instructions are invalid got the
\* error of the second.
C28_Witness ==
    /\ Validated
    /\ Len(probe.envelope.instructions) = 3
    /\ InvalidPositions(probe.envelope.instructions) = {2, 3}
    /\ probe.envelope.sender_para = 1000
    /\ probe.envelope.dest_para = 2000
    /\ probe.configured = <<"v", "3">>
    /\ probe.result.detail = "instruction 1 invalid: query_id must be provided"

(***************************************************************************)
(* C29: a request whose envelope is valid and whose signature field is the *)
(* hex text of the registered sender's signature over the serialization of *)
(* the unsigned envelope is accepted, and the bytes handed to verification *)
(* are the bytes that were signed.                                         *)
(***************************************************************************)
\* The request carries the sender's signature over its unsigned envelope.
SignedUnsigned(payload) ==
    /\ payload.sender_para \in KeyRegistry
    /\ payload.signature =
          <<HexEncode(Sign(payload.sender_para, Serialize(Unsigned(payload))))>>

C29_SignedBytesVerified ==
    (/\ probe.fn = "api"
     /\ probe.done
     /\ validate(probe.payload, ConfigXcmVersion).ok
     /\ SignedUnsigned(probe.payload))
        => /\ probe.kind = "Ok"
           /\ probe.raw_payload = Serialize(Unsigned(probe.payload))

(***************************************************************************)
(* C31: registration is not rolled back when the enqueue fails.  When a    *)
(* call returns ChannelClosed, the record under its resolved id is the     *)
(* Pending record with hops [sender] that admission inserted, and in every *)
(* later state the record under that id is still there and Pending.        *)
(***************************************************************************)
\* The calls that have returned ChannelClosed.
ClosedCalls == {c \in DOMAIN admitted : admitted[c].result = "ChannelClosed"}

\* The step in which a call returns ChannelClosed.
ReturnsChannelClosed == Returns /\ ret'.kind = "ChannelClosed"

C31_RegistrationNotRolledBack ==
    /\ [][ReturnsChannelClosed =>
            /\ admitted[ret'.call].message_id \in DOMAIN messages'
            /\ messages'[admitted[ret'.call].message_id] =
                   PendingRecord(admitted[ret'.call].envelope)]_vars
    /\ [](\A c \in ClosedCalls :
            /\ admitted[c].message_id \in DOMAIN messages
            /\ messages[admitted[c].message_id].status = Pending)

====
